---- MODULE Spec2Model ----
(***************************************************************************)
(* Model of the "Keystroke Hexdump" firmware: the cooperative loop         *)
(* prog_loop_one (main.c), the blink-mode controller updateBlinkSetting    *)
(* (main.c), and the pushbutton mailbox written by EIC_EXTINT_2_Handler    *)
(* and drained by platform_pb_get_event (platform/gpio.c).                 *)
(*                                                                         *)
(* The USART facility (platform_usart_cdc_tx_async / _tx_busy / _rx_async  *)
(* and the tick handler behind platform_do_loop_one) and platform.h are    *)
(* not among the sources; they are modelled from the interface section of  *)
(* the specification: a transmit attempt is accepted iff the facility is   *)
(* idle, an accepted transfer completes during some later tick, an armed   *)
(* receive completes during some later tick with a frame written from the  *)
(* start of the caller's buffer.                                           *)
(***************************************************************************)
EXTENDS Integers, Sequences, FiniteSets, TLC

\* ------------------------------------------------------------------ bounds
\* Longest opaque frame the terminal sends in the model (the receive buffer
\* caps every frame at RX_BUF_LEN bytes).
MaxOpaqueLen == 1
\* The byte opaque frames are made of (any byte the decoder has no case for).
OpaqueByte == 120
\* Cap of the history counters (ticks of one invocation, startup banners sent).
MaxCount == 2

\* ------------------------------------------------------- program constants
HOME_KEY == 27
CTRL_E == 5
CH_LBRACKET == 91
CH_H == 72
CH_D == 68
CH_C == 67
CH_a == 97
CH_A == 65
CH_d == 100

PROG_FLAG_BANNER_PENDING == 1
PROG_FLAG_UPDATE_PENDING == 2
PROG_FLAG_GEN_COMPLETE == 32768

NR_TX_DESC == 4
TX_BUF_LEN == 64
RX_BUF_LEN == 16

OFF == 0
ON == 4

\* platform.h: the two event bits of the on-board pushbutton and their mask.
PLATFORM_PB_ONBOARD_PRESS == 1
PLATFORM_PB_ONBOARD_RELEASE == 2
PLATFORM_PB_ONBOARD_MASK == {PLATFORM_PB_ONBOARD_PRESS, PLATFORM_PB_ONBOARD_RELEASE}

\* sizeof(s) - 1 / strlen(s) of the string constants of main.c
StrLen(s) ==
  CASE s = "init_banner_msg" -> 712
    [] s = "banner_msg" -> 656
    [] s = "ESC_SEQ_BUTTON_POS" -> 7
    [] s = "BUTTON_PRESSED" -> 27
    [] s = "BUTTON_RELEASED" -> 27
    [] s = "CHANGE_MODE" -> 11
    [] OTHER -> 27

\* blinkSettingStrings[setting]: the status line of a setting
blinkSettingStrings(setting) ==
  CASE setting = 0 -> "Blink Setting: [   OFF  ]"
    [] setting = 1 -> "Blink Setting: [  SLOW  ]"
    [] setting = 2 -> "Blink Setting: [ MEDIUM ]"
    [] setting = 3 -> "Blink Setting: [  FAST  ]"
    [] OTHER -> "Blink Setting: [   ON   ]"

\* a platform_usart_tx_bufdesc_t
Desc(b) == [buf |-> b, len |-> StrLen(b)]
NullDesc == [buf |-> "NULL", len |-> 0]

VARIABLES
  pc,             \* position of the loop thread inside prog_loop_one
  init,           \* int init
  flags,          \* ps->flags, as the set of its bits that are set
  tx_desc,        \* ps->tx_desc[0..3]
  tx_buf,         \* ps->tx_buf
  tx_blen,        \* ps->tx_blen
  rx_compl_type,  \* ps->rx_desc.compl_type
  rx_data_len,    \* ps->rx_desc.compl_info.data_len
  rx_desc_blen,   \* ps->rx_desc_blen
  rx_desc_buf,    \* ps->rx_desc_buf
  currentSetting, \* BlinkSetting currentSetting
  pb_press_mask,  \* the button mailbox, as the set of its bits that are set
  cache,          \* local of platform_pb_get_event
  a,              \* local of prog_loop_one
  tx_busy,        \* facility: a transfer is in flight
  tx_inflight,    \* facility: the segments of the transfer in flight
  tx_ref,         \* facility: indices of ps->tx_desc the transfer references
  rx_armed,       \* facility: a receive is armed and not completed
  txAttempts,     \* history: the transmit attempts made by the last step
  call,           \* history: updateBlinkSetting call of this iteration
  path,           \* history: decoder branch taken in this iteration
  frame,          \* history: the frame seen by this iteration
  lastEdge,       \* history: bit of the last edge since the previous poll returned
  edges,          \* history: bits of all edges since the previous poll returned
  rxArms,         \* history: the platform_usart_cdc_rx_async calls of the last step
  quiet,          \* history: no button edge and no received frame so far
  first,          \* history: the first invocation of prog_loop_one has not returned
  initSent,       \* history: startup banners accepted so far (capped)
  ticks           \* history: platform_do_loop_one calls of this invocation (capped)

vars == <<pc, init, flags, tx_desc, tx_buf, tx_blen, rx_compl_type, rx_data_len,
          rx_desc_blen, rx_desc_buf, currentSetting, pb_press_mask, cache, a,
          tx_busy, tx_inflight, tx_ref, rx_armed, txAttempts, call, path, frame,
          lastEdge, edges, rxArms, quiet, first, initSent, ticks>>

progVars == <<init, flags, tx_desc, tx_buf, tx_blen, rx_compl_type, rx_data_len,
              rx_desc_blen, rx_desc_buf, currentSetting>>
ghostVars == <<call, path, frame>>
countVars == <<first, initSent, ticks>>

\* n + 1, saturating at MaxCount
Bump(n) == IF n < MaxCount THEN n + 1 ELSE MaxCount

\* ------------------------------------------------------------ the terminal
\* Frames the terminal can send: the keys the decoder knows, a lone ESC, and
\* opaque runs of 'x'.
OpaqueFrames == {[i \in 1..n |-> OpaqueByte] : n \in 1..(IF MaxOpaqueLen < RX_BUF_LEN THEN MaxOpaqueLen ELSE RX_BUF_LEN)}
Frames ==
  { <<HOME_KEY, CH_LBRACKET, CH_D>>, <<HOME_KEY, CH_LBRACKET, CH_C>>,
    <<HOME_KEY, CH_LBRACKET, CH_H>>, <<HOME_KEY>>,
    <<CH_a>>, <<CH_A>>, <<CH_d>>, <<CH_D>>, <<CTRL_E>> } \cup OpaqueFrames


\* ------------------------------------------------- serial transfer facility
\* platform_usart_cdc_tx_busy()
platform_usart_cdc_tx_busy == tx_busy

\* Return value of platform_usart_cdc_tx_async: accepted iff the facility is idle.
TxAccepted == ~platform_usart_cdc_tx_busy

\* The segments a transfer of the first n descriptors of d carries.
Segs(d, n) == SelectSeq(SubSeq(d, 1, n), LAMBDA x : x.len > 0)

\* platform_usart_cdc_tx_async(d, n) called from `site`: non-blocking, takes the
\* transfer iff idle; the descriptors stay referenced until the transfer completes.
platform_usart_cdc_tx_async(d, n, site) ==
  /\ txAttempts' = <<[site |-> site, busy |-> tx_busy, n |-> n]>>
  /\ IF TxAccepted
       THEN /\ tx_busy' = TRUE
            /\ tx_inflight' = Segs(d, n)
            /\ tx_ref' = 1..n
       ELSE UNCHANGED <<tx_busy, tx_inflight, tx_ref>>

NoTx == /\ txAttempts' = <<>>
        /\ UNCHANGED <<tx_busy, tx_inflight, tx_ref>>

\* platform_usart_cdc_rx_async(&ps->rx_desc), called while the transmit facility
\* is busy (txbusy) or idle: a receive is armed afterwards, whether or not one
\* was armed before.
platform_usart_cdc_rx_async(txbusy) ==
  /\ rxArms' = <<[armed |-> rx_armed, txbusy |-> txbusy]>>
  /\ rx_armed' = TRUE

NoRx == /\ rxArms' = <<>>
        /\ UNCHANGED rx_armed

\* The buffer after the facility wrote the frame f from its start.
Received(buf, f) == [i \in 1..RX_BUF_LEN |-> IF i <= Len(f) THEN f[i] ELSE buf[i]]

\* platform_do_loop_one(): the facility's housekeeping. The transfer in flight
\* may complete; an armed receive may complete with a frame.
platform_do_loop_one ==
  \E done \in BOOLEAN, f \in Frames \cup {<<>>} :
    /\ IF tx_busy /\ done
         THEN tx_busy' = FALSE /\ tx_inflight' = <<>> /\ tx_ref' = {}
         ELSE UNCHANGED <<tx_busy, tx_inflight, tx_ref>>
    /\ IF rx_armed /\ f # <<>>
         THEN /\ rx_desc_buf' = Received(rx_desc_buf, f)
              /\ rx_compl_type' = "DATA"
              /\ rx_data_len' = Len(f)
              /\ rx_armed' = FALSE
              /\ quiet' = FALSE
         ELSE UNCHANGED <<rx_desc_buf, rx_compl_type, rx_data_len, rx_armed, quiet>>

\* ------------------------------------------------------ button edge source
\* The bit EIC_EXTINT_2_Handler records for the pin state it reads.
EdgeBit(pressed) ==
  IF pressed THEN PLATFORM_PB_ONBOARD_PRESS ELSE PLATFORM_PB_ONBOARD_RELEASE

\* A handler that forgets line 253 and only ORs the new bit in.
HandlerMask_NoClear(mask, pressed) == mask \cup {EdgeBit(pressed)}

\* The mailbox after one run of the handler.
HandlerMask(mask, pressed) == (mask \ PLATFORM_PB_ONBOARD_MASK) \cup {EdgeBit(pressed)}

\* EIC_EXTINT_2_Handler: runs at any point of the loop thread.
EIC_EXTINT_2_Handler ==
  \E pressed \in BOOLEAN :
    /\ pb_press_mask' = HandlerMask(pb_press_mask, pressed)
    /\ lastEdge' = IF pc = "pb_clear" THEN lastEdge ELSE {EdgeBit(pressed)}
    /\ edges' = IF pc = "pb_clear" THEN edges ELSE edges \cup {EdgeBit(pressed)}
    /\ quiet' = FALSE
    /\ UNCHANGED <<pc, cache, a, progVars, ghostVars, countVars, rx_armed, rxArms,
                   tx_busy, tx_inflight, tx_ref, txAttempts>>

\* platform_pb_get_event, first statement: uint16_t cache = pb_press_mask;
PbRead ==
  /\ pc = "pb_read"
  /\ cache' = pb_press_mask
  /\ pc' = "pb_clear"
  /\ NoTx /\ NoRx
  /\ UNCHANGED <<pb_press_mask, a, progVars, ghostVars, countVars, quiet,
                 lastEdge, edges>>

\* platform_pb_get_event, rest: pb_press_mask = 0; return cache; (the local dies)
PbClear ==
  /\ pc = "pb_clear"
  /\ pb_press_mask' = {}
  /\ a' = cache
  /\ lastEdge' = {}
  /\ edges' = {}
  /\ cache' = {}
  /\ pc' = "button"
  /\ NoTx /\ NoRx
  /\ UNCHANGED <<progVars, ghostVars, countVars, quiet>>

\* ---------------------------------------------------- blink-mode controller
\* A controller that steps without the range checks of lines 118 and 120.
NextSetting_NoClamp(cur, increase) == IF increase THEN cur + 1 ELSE cur - 1

\* currentSetting after updateBlinkSetting(ps, increase)
NextSetting(cur, increase) ==
  IF increase /\ cur < ON THEN cur + 1
  ELSE IF ~increase /\ cur > OFF THEN cur - 1
  ELSE cur

\* The descriptor set after updateBlinkSetting wrote entries 0 and 1.
BlinkDescs(d, setting) ==
  [d EXCEPT ![1] = Desc("CHANGE_MODE"), ![2] = Desc(blinkSettingStrings(setting))]

\* A controller that reads the status line (lines 126-127) before it moves
\* currentSetting (lines 118-122).
updateBlinkSetting_StaleLine(increase) ==
  /\ currentSetting' = NextSetting(currentSetting, increase)
  /\ tx_desc' = BlinkDescs(tx_desc, currentSetting)
  /\ platform_usart_cdc_tx_async(tx_desc', 2, "blink")

\* updateBlinkSetting(ps, increase); the writes to the PORT and TC0 registers
\* (the LED) touch no state the loop reads and are left out.
updateBlinkSetting(increase) ==
  /\ currentSetting' = NextSetting(currentSetting, increase)
  /\ tx_desc' = BlinkDescs(tx_desc, currentSetting')
  /\ platform_usart_cdc_tx_async(tx_desc', 2, "blink")

\* --------------------------------------------------------------- the decoder
\* A classifier that knows the Home key only, not CTRL_E.
IsRefresh_HomeOnly(buf) == buf[1] = HOME_KEY /\ buf[3] = CH_H

\* main.c line 187: the frame asks for a banner refresh
IsRefresh(buf) ==
  buf[1] = CTRL_E \/ (buf[1] = HOME_KEY /\ buf[3] = CH_H)

\* main.c lines 234-261: the branch the decoder takes
DecodePath(buf) ==
  IF buf[1] = HOME_KEY
    THEN IF buf[2] = CH_LBRACKET /\ buf[3] \in {CH_D, CH_C} THEN "arrow" ELSE "esc"
  ELSE IF buf[1] \in {CH_a, CH_A} THEN "alias"
  ELSE IF buf[1] \in {CH_D, CH_d} THEN "alias"
  ELSE "opaque"

\* A decoder with the two arrow cases of the switch exchanged.
DecodeCall_Swapped(buf) ==
  IF buf[1] = HOME_KEY
    THEN IF buf[2] = CH_LBRACKET
           THEN IF buf[3] = CH_D THEN "inc"
                ELSE IF buf[3] = CH_C THEN "dec"
                ELSE "none"
           ELSE "none"
  ELSE IF buf[1] = CH_a \/ buf[1] = CH_A THEN "dec"
  ELSE IF buf[1] = CH_D \/ buf[1] = CH_d THEN "inc"
  ELSE "none"

\* main.c lines 234-261: the updateBlinkSetting call the decoder makes
DecodeCall(buf) ==
  IF buf[1] = HOME_KEY
    THEN IF buf[2] = CH_LBRACKET
           THEN IF buf[3] = CH_D THEN "dec"
                ELSE IF buf[3] = CH_C THEN "inc"
                ELSE "none"
           ELSE "none"
  ELSE IF buf[1] = CH_a \/ buf[1] = CH_A THEN "dec"
  ELSE IF buf[1] = CH_D \/ buf[1] = CH_d THEN "inc"
  ELSE "none"


\* ------------------------------------------------------------ the loop thread
\* The state after prog_setup: ps zeroed, platform up, receiver armed.
Init ==
  /\ pc = "tick"
  /\ init = 0
  /\ flags = {}
  /\ tx_desc = [i \in 1..NR_TX_DESC |-> NullDesc]
  /\ tx_buf = [i \in 1..TX_BUF_LEN |-> 0]
  /\ tx_blen = 0
  /\ rx_compl_type = "NONE"
  /\ rx_data_len = 0
  /\ rx_desc_blen = 0
  /\ rx_desc_buf = [i \in 1..RX_BUF_LEN |-> 0]
  /\ currentSetting = OFF
  /\ pb_press_mask = {}
  /\ cache = {}
  /\ a = {}
  /\ tx_busy = FALSE
  /\ tx_inflight = <<>>
  /\ tx_ref = {}
  /\ rx_armed = TRUE
  /\ txAttempts = <<>>
  /\ call = "none"
  /\ path = "none"
  /\ frame = <<>>
  /\ lastEdge = {}
  /\ edges = {}
  /\ rxArms = <<>>
  /\ quiet = TRUE
  /\ first = TRUE
  /\ initSent = 0
  /\ ticks = 0

\* main.c 154-158: locals zeroed, platform_do_loop_one(), platform_blink_modify()
LoopTick ==
  /\ pc = "tick"
  /\ platform_do_loop_one
  /\ call' = "none" /\ path' = "none" /\ frame' = <<>>
  /\ txAttempts' = <<>>
  /\ rxArms' = <<>>
  /\ ticks' = 1
  /\ pc' = "init"
  /\ UNCHANGED <<init, flags, tx_desc, tx_buf, tx_blen, rx_desc_blen, currentSetting,
                 pb_press_mask, cache, a, lastEdge, edges, first, initSent>>

\* The init step without line 164: the latch is never set.
LoopInit_NoLatch ==
  /\ pc = "init"
  /\ tx_desc' = [tx_desc EXCEPT ![1] = Desc("init_banner_msg")]
  /\ platform_usart_cdc_tx_async(tx_desc', 1, "init")
  /\ initSent' = IF TxAccepted THEN Bump(initSent) ELSE initSent
  /\ pc' = "pb_read"
  /\ NoRx
  /\ UNCHANGED <<init, flags, tx_buf, tx_blen, rx_compl_type, rx_data_len, rx_desc_blen,
                 rx_desc_buf, currentSetting, pb_press_mask, cache, a,
                 ghostVars, lastEdge, edges, quiet, first, ticks>>

\* An init step that raises banner-pending instead of queuing the banner itself.
LoopInit_ViaFlag ==
  /\ pc = "init"
  /\ flags' = IF init = 0 THEN flags \cup {PROG_FLAG_BANNER_PENDING} ELSE flags
  /\ init' = 1
  /\ pc' = "pb_read"
  /\ NoTx /\ NoRx
  /\ UNCHANGED <<tx_desc, tx_buf, tx_blen, rx_compl_type, rx_data_len, rx_desc_blen,
                 rx_desc_buf, currentSetting, pb_press_mask, cache, a,
                 ghostVars, lastEdge, edges, quiet, first, initSent, ticks>>

\* main.c 160-165: the first invocation queues the startup banner
LoopInit ==
  /\ pc = "init"
  /\ IF init = 0
       THEN /\ tx_desc' = [tx_desc EXCEPT ![1] = Desc("init_banner_msg")]
            /\ platform_usart_cdc_tx_async(tx_desc', 1, "init")
            /\ initSent' = IF TxAccepted THEN Bump(initSent) ELSE initSent
            /\ init' = 1
       ELSE NoTx /\ UNCHANGED <<tx_desc, init, initSent>>
  /\ pc' = "pb_read"
  /\ NoRx
  /\ UNCHANGED <<flags, tx_buf, tx_blen, rx_compl_type, rx_data_len, rx_desc_blen,
                 rx_desc_buf, currentSetting, pb_press_mask, cache, a,
                 ghostVars, lastEdge, edges, quiet, first, ticks>>

\* main.c 167-181: the status line the button step queues for the drained mask
ButtonMsg(mask) ==
  IF PLATFORM_PB_ONBOARD_PRESS \in mask THEN "BUTTON_PRESSED"
  ELSE IF PLATFORM_PB_ONBOARD_RELEASE \in mask THEN "BUTTON_RELEASED"
  ELSE "NULL"

\* main.c 167-181 (a is not read after line 181: the model forgets it there)
LoopButton ==
  /\ pc = "button"
  /\ IF a # {} /\ ButtonMsg(a) # "NULL"
       THEN /\ tx_desc' = [tx_desc EXCEPT ![1] = Desc("ESC_SEQ_BUTTON_POS"),
                                          ![2] = Desc(ButtonMsg(a))]
            /\ platform_usart_cdc_tx_async(tx_desc', 2, ButtonMsg(a))
       ELSE NoTx /\ UNCHANGED tx_desc
  /\ a' = {}
  /\ pc' = "rx"
  /\ NoRx
  /\ UNCHANGED <<init, flags, tx_buf, tx_blen, rx_compl_type, rx_data_len, rx_desc_blen,
                 rx_desc_buf, currentSetting, pb_press_mask, cache,
                 ghostVars, countVars, quiet, lastEdge, edges>>

\* main.c 184-193: a completed receive sets exactly one pending flag
LoopRx ==
  /\ pc = "rx"
  /\ IF rx_compl_type = "DATA"
       THEN /\ flags' = flags \cup (IF IsRefresh(rx_desc_buf)
                                      THEN {PROG_FLAG_BANNER_PENDING}
                                      ELSE {PROG_FLAG_UPDATE_PENDING})
            /\ rx_desc_blen' = rx_data_len
            /\ frame' = SubSeq(rx_desc_buf, 1, rx_data_len)
       ELSE UNCHANGED <<flags, rx_desc_blen, frame>>
  /\ pc' = "banner"
  /\ NoTx /\ NoRx
  /\ UNCHANGED <<init, tx_desc, tx_buf, tx_blen, rx_compl_type, rx_data_len, rx_desc_buf,
                 currentSetting, pb_press_mask, cache, a, call, path,
                 countVars, quiet, lastEdge, edges>>

\* Banner flags that keep generation-complete when the transfer is accepted.
BannerFlags_KeepsGen(fl, accepted) ==
  LET gen == fl \cup {PROG_FLAG_GEN_COMPLETE}
  IN  IF accepted THEN gen \ {PROG_FLAG_BANNER_PENDING} ELSE gen

\* main.c 212, 217-218: ps->flags after the banner step, which has generation-
\* complete set (line 212, or an earlier iteration) when it attempts its transfer
BannerFlags(fl, accepted) ==
  LET gen == fl \cup {PROG_FLAG_GEN_COMPLETE}
  IN  IF accepted THEN gen \ {PROG_FLAG_BANNER_PENDING, PROG_FLAG_GEN_COMPLETE} ELSE gen

\* main.c 199-220: banner servicing
LoopBanner ==
  /\ pc = "banner"
  /\ IF PROG_FLAG_BANNER_PENDING \notin flags \/ platform_usart_cdc_tx_busy
       THEN NoTx /\ NoRx /\ UNCHANGED <<flags, tx_desc, rx_compl_type>>
       ELSE /\ IF PROG_FLAG_GEN_COMPLETE \notin flags
                 THEN /\ tx_desc' = [tx_desc EXCEPT ![1] = Desc("banner_msg")]
                      /\ rx_compl_type' = "NONE"
                      /\ platform_usart_cdc_rx_async(platform_usart_cdc_tx_busy)
                 ELSE NoRx /\ UNCHANGED <<tx_desc, rx_compl_type>>
            /\ platform_usart_cdc_tx_async(tx_desc', 1, "banner")
            /\ flags' = BannerFlags(flags, TxAccepted)
  /\ pc' = "update"
  /\ UNCHANGED <<init, tx_buf, tx_blen, rx_data_len, rx_desc_blen, rx_desc_buf,
                 currentSetting, pb_press_mask, cache, a, ghostVars, countVars, quiet,
                 lastEdge, edges>>

\* main.c 223-261: update servicing up to the end of message generation; the
\* alias keys stop at the wait of line 251 / 255 before the controller is called
LoopUpdate ==
  /\ pc = "update"
  /\ IF PROG_FLAG_UPDATE_PENDING \notin flags \/ platform_usart_cdc_tx_busy
       THEN /\ pc' = "tick"
            /\ first' = FALSE
            /\ NoTx
            /\ UNCHANGED <<flags, tx_desc, rx_desc_blen, currentSetting, call, path>>
       ELSE IF PROG_FLAG_GEN_COMPLETE \in flags
         THEN /\ pc' = "upd_tx"
              /\ NoTx
              /\ UNCHANGED <<flags, tx_desc, rx_desc_blen, currentSetting, call, path, first>>
         ELSE /\ path' = DecodePath(rx_desc_buf)
              /\ UNCHANGED first
              /\ IF path' = "alias"
                   THEN /\ pc' = "sync_wait"
                        /\ NoTx
                        /\ UNCHANGED <<flags, tx_desc, rx_desc_blen, currentSetting, call>>
                   ELSE /\ pc' = "upd_wait"
                        /\ call' = DecodeCall(rx_desc_buf)
                        /\ IF call' # "none"
                             THEN /\ updateBlinkSetting(call' = "inc")
                                  /\ UNCHANGED <<flags, rx_desc_blen>>
                             ELSE /\ NoTx
                                  /\ UNCHANGED <<tx_desc, currentSetting>>
                                  /\ IF path' = "opaque"
                                       THEN /\ flags' = flags \cup {PROG_FLAG_UPDATE_PENDING}
                                            /\ rx_desc_blen' = rx_data_len
                                       ELSE UNCHANGED <<flags, rx_desc_blen>>
  /\ NoRx
  /\ UNCHANGED <<init, tx_buf, tx_blen, rx_compl_type, rx_data_len, rx_desc_buf,
                 pb_press_mask, cache, a, frame, lastEdge, edges, quiet, initSent, ticks>>

\* main.c 251 / 255: while (TC0_REGS->COUNT16.TC_SYNCBUSY & (1 << 4)); reads 0,
\* then line 252 / 256 calls the controller. TC0 is never set up (gpio.c 355),
\* so whether the bit ever reads 0 is the hardware's choice.
SyncWaitExit ==
  /\ pc = "sync_wait"
  /\ call' = DecodeCall(rx_desc_buf)
  /\ updateBlinkSetting(call' = "inc")
  /\ pc' = "upd_wait"
  /\ NoRx
  /\ UNCHANGED <<init, flags, tx_buf, tx_blen, rx_compl_type, rx_data_len, rx_desc_blen,
                 rx_desc_buf, pb_press_mask, cache, a, path, frame, lastEdge, edges,
                 countVars, quiet>>

\* main.c 264-266: one turn of the busy-wait
UpdWaitTick ==
  /\ pc = "upd_wait"
  /\ platform_usart_cdc_tx_busy
  /\ platform_do_loop_one
  /\ ticks' = Bump(ticks)
  /\ txAttempts' = <<>>
  /\ rxArms' = <<>>
  /\ UNCHANGED <<pc, init, flags, tx_desc, tx_buf, tx_blen, rx_desc_blen, currentSetting,
                 pb_press_mask, cache, a, ghostVars, lastEdge, edges, first, initSent>>

\* main.c 268-272: the facility is idle, re-arm the receiver
UpdRearm ==
  /\ pc = "upd_wait"
  /\ ~platform_usart_cdc_tx_busy
  /\ rx_compl_type' = "NONE"
  /\ platform_usart_cdc_rx_async(platform_usart_cdc_tx_busy)
  /\ flags' = flags \cup {PROG_FLAG_GEN_COMPLETE}
  /\ rx_desc_blen' = 0
  /\ pc' = "upd_tx"
  /\ NoTx
  /\ UNCHANGED <<init, tx_desc, tx_buf, tx_blen, rx_data_len, rx_desc_buf, currentSetting,
                 pb_press_mask, cache, a, ghostVars, countVars, quiet, lastEdge, edges>>

\* Update flags that keep generation-complete when the transfer is accepted.
UpdateTxFlags_KeepsGen(fl, accepted) ==
  IF accepted THEN fl \ {PROG_FLAG_UPDATE_PENDING} ELSE fl

\* main.c 275, 278: ps->flags after the update step attempted its transfer
UpdateTxFlags(fl, accepted) ==
  IF accepted THEN fl \ {PROG_FLAG_UPDATE_PENDING, PROG_FLAG_GEN_COMPLETE} ELSE fl

\* main.c 275-279: the update transfer; on acceptance the receiver is armed
\* again, with the transfer just accepted in flight
LoopUpdateTx ==
  /\ pc = "upd_tx"
  /\ platform_usart_cdc_tx_async(tx_desc, 3, "update")
  /\ IF TxAccepted
       THEN /\ rx_compl_type' = "NONE"
            /\ platform_usart_cdc_rx_async(tx_busy')
       ELSE NoRx /\ UNCHANGED rx_compl_type
  /\ flags' = UpdateTxFlags(flags, TxAccepted)
  /\ first' = FALSE
  /\ pc' = "tick"
  /\ UNCHANGED <<init, tx_desc, tx_buf, tx_blen, rx_data_len, rx_desc_blen, rx_desc_buf,
                 currentSetting, pb_press_mask, cache, a, ghostVars, lastEdge, edges,
                 quiet, initSent, ticks>>

\* A step of the loop thread other than leaving the wait of line 251 / 255.
LoopStep ==
  \/ LoopTick
  \/ LoopInit
  \/ PbRead
  \/ PbClear
  \/ LoopButton
  \/ LoopRx
  \/ LoopBanner
  \/ LoopUpdate
  \/ UpdWaitTick
  \/ UpdRearm
  \/ LoopUpdateTx

Next ==
  \/ LoopStep
  \/ SyncWaitExit
  \/ EIC_EXTINT_2_Handler

Spec == Init /\ [][Next]_vars

\* A tick in which the transfer in flight completes.
TxCompletes == (LoopTick \/ UpdWaitTick) /\ tx_busy /\ ~tx_busy'

\* The loop thread keeps running, and a transfer in flight completes after
\* finitely many ticks; nothing is assumed of the button or of the wait on TC0.
FairSpec == Spec /\ WF_vars(LoopStep) /\ SF_vars(TxCompletes)


\* ===================================================================== claims

\* C1: no call of platform_usart_cdc_tx_async is made while the transmit
\* facility is busy, whatever the call site (startup banner, button status,
\* updateBlinkSetting, banner servicing, update servicing).
C1_NoTxWhileBusy ==
  \A i \in 1..Len(txAttempts) : ~txAttempts[i].busy

\* C2: while a transfer stays in flight, no entry of ps->tx_desc that the
\* transfer references is written by the loop.
C2_DescStableWhileBusy ==
  [][(tx_busy /\ tx_busy') => \A i \in tx_ref : tx_desc'[i] = tx_desc[i]]_vars

\* C3: currentSetting stays within OFF..ON; an updateBlinkSetting call moves
\* it by exactly one step in the requested direction, except that increase at
\* ON and decrease at OFF leave it unchanged; no other step changes it.
C3_BlinkStep ==
  /\ currentSetting \in OFF..ON
  /\ [][ /\ currentSetting' \in OFF..ON
         /\ (call = "none" /\ call' = "inc") =>
              currentSetting' = (IF currentSetting = ON THEN ON ELSE currentSetting + 1)
         /\ (call = "none" /\ call' = "dec") =>
              currentSetting' = (IF currentSetting = OFF THEN OFF ELSE currentSetting - 1)
         /\ ~(call = "none" /\ call' # "none") => currentSetting' = currentSetting
     ]_vars

\* C3 witness: an increase call has acted and the setting sits at the top.
C3_Witness == pc = "upd_wait" /\ call = "inc" /\ currentSetting = ON

C5_NoEdgeLost ==
  [][(pc = "pb_clear" /\ pc' = "button") =>
       pb_press_mask \subseteq (a' \cup pb_press_mask')]_vars


\* f begins with the bytes of p
Begins(f, p) == Len(f) >= Len(p) /\ SubSeq(f, 1, Len(p)) = p

\* C7: when a completed frame is decoded, ESC '[' 'D' calls
\* updateBlinkSetting(false), ESC '[' 'C' calls updateBlinkSetting(true),
\* 'a'/'A' call updateBlinkSetting(false), 'd'/'D' call updateBlinkSetting(true).
C7_DecodeDispatch ==
  (pc = "upd_wait" /\ frame # <<>>) =>
    /\ Begins(frame, <<HOME_KEY, CH_LBRACKET, CH_D>>) => call = "dec"
    /\ Begins(frame, <<HOME_KEY, CH_LBRACKET, CH_C>>) => call = "inc"
    /\ (Begins(frame, <<CH_a>>) \/ Begins(frame, <<CH_A>>)) => call = "dec"
    /\ (Begins(frame, <<CH_d>>) \/ Begins(frame, <<CH_D>>)) => call = "inc"

\* C7 witness: a left-arrow frame has been decoded into a decrease call.
C7_Witness ==
  /\ pc = "upd_wait"
  /\ frame = <<HOME_KEY, CH_LBRACKET, CH_D>>
  /\ call = "dec"

\* C8: a completed frame of fewer than 3 bytes is never classified as the
\* Home-key refresh (line 187) nor as an arrow key (lines 238-246), whatever
\* earlier frames left in the receive buffer.
C8_ShortFrameNotEscape ==
  (frame # <<>> /\ Len(frame) < 3) =>
    /\ (pc = "banner" /\ PROG_FLAG_BANNER_PENDING \in flags) => frame[1] = CTRL_E
    /\ pc = "upd_wait" => path # "arrow"

\* C9: the accepted update transfer of an opaque frame of length L carries L
\* two-hex-digit tokens generated into ps->tx_buf, within its 64 bytes.
C9_OpaqueHexDump ==
  ( /\ txAttempts # <<>>
    /\ txAttempts[1].site = "update"
    /\ ~txAttempts[1].busy
    /\ path = "opaque" ) =>
      \E i \in 1..txAttempts[1].n :
        /\ tx_desc[i].buf = "tx_buf"
        /\ tx_desc[i].len >= 2 * Len(frame)
        /\ tx_desc[i].len <= TX_BUF_LEN

\* The frame is the refresh control byte or the 3-byte Home-key sequence.
IsRefreshFrame(f) ==
  Begins(f, <<CTRL_E>>) \/ Begins(f, <<HOME_KEY, CH_LBRACKET, CH_H>>)

\* C10: in an iteration whose completed frame is CTRL_E or ESC '[' 'H', the
\* receive step sets banner-pending, and no step of the iteration sets
\* update-pending.
C10_RefreshSetsBannerOnly ==
  [][IsRefreshFrame(frame') =>
       /\ pc = "rx" => PROG_FLAG_BANNER_PENDING \in flags'
       /\ PROG_FLAG_UPDATE_PENDING \in flags' => PROG_FLAG_UPDATE_PENDING \in flags
    ]_vars

\* C10 witness: the receive step has classified a Home-key frame.
C10_Witness ==
  /\ pc = "banner"
  /\ frame = <<HOME_KEY, CH_LBRACKET, CH_H>>
  /\ flags = {PROG_FLAG_BANNER_PENDING}

\* C11: the startup banner is accepted exactly once, by the init step of the
\* first invocation, while the facility is idle; in a run with no button edge
\* and no received frame, no later iteration attempts any transfer.
C11_StartupBannerOnce ==
  /\ initSent <= 1
  /\ init = 1 => initSent = 1
  /\ \A i \in 1..Len(txAttempts) :
       txAttempts[i].site = "init" => (first /\ ~txAttempts[i].busy)
  /\ (quiet /\ ~first) => txAttempts = <<>>

\* C11 witness: a later iteration of a run without input is past the init
\* step while the startup banner is still in flight.
C11_Witness ==
  /\ quiet /\ ~first
  /\ pc = "pb_read"
  /\ tx_busy /\ initSent = 1

\* C12 as stated: the first iteration with no input has banner-pending set
\* when it reaches the banner-servicing step.
C12_FirstIterationSetsBannerPending ==
  (quiet /\ first /\ pc = "banner") => PROG_FLAG_BANNER_PENDING \in flags

\* C12 as amended: in a run with no input no flag is ever set; the startup
\* banner is queued by the init step itself (descriptor 0, one segment), and
\* the banner-servicing step attempts nothing.
C12_StartupBannerQueuedDirectly ==
  quiet =>
    /\ flags = {}
    /\ \A i \in 1..Len(txAttempts) :
         txAttempts[i] = [site |-> "init", busy |-> FALSE, n |-> 1]
    /\ (first /\ init = 1) => tx_desc[1] = Desc("init_banner_msg")
    /\ (first /\ pc = "pb_read") => txAttempts # <<>>

\* C12 witness: the first iteration of a run without input has passed the
\* banner-servicing step.
C12_Witness ==
  /\ quiet /\ first
  /\ pc = "update"
  /\ init = 1

\* C13: banner-pending, once set, stays set over every step but the banner
\* step whose transfer is accepted; that step clears banner-pending and
\* generation-complete together.
C13_BannerPendingUntilAccepted ==
  [][(PROG_FLAG_BANNER_PENDING \in flags) =>
       (IF pc = "banner" /\ txAttempts' # <<>> /\ ~txAttempts'[1].busy
          THEN flags' \cap {PROG_FLAG_BANNER_PENDING, PROG_FLAG_GEN_COMPLETE} = {}
          ELSE PROG_FLAG_BANNER_PENDING \in flags')]_vars

\* C13 witness: the banner step found the facility busy and left the request
\* pending.
C13_Witness ==
  /\ pc = "update"
  /\ PROG_FLAG_BANNER_PENDING \in flags
  /\ tx_busy

\* C14: every invocation of prog_loop_one calls platform_do_loop_one exactly
\* once: once past line 157, and never a second time.
C14_OneTickPerInvocation ==
  /\ ticks <= 1
  /\ pc # "tick" => ticks = 1

\* C15: platform_usart_cdc_rx_async is never called while a receive is armed
\* and not yet completed.
C15_NoArmWhileArmed ==
  \A i \in 1..Len(rxArms) : ~rxArms[i].armed

\* The last step made an accepted transfer attempt for the status line msg.
ButtonAccepted(msg) ==
  /\ txAttempts # <<>>
  /\ txAttempts[1].site = msg
  /\ ~txAttempts[1].busy

\* C16: a status bit drained from the mailbox leads to an accepted transfer of
\* its status line (or the invocation stops at the wait on TC0).
C16_DrainedStatusEventuallyAccepted ==
  /\ (pc = "button" /\ PLATFORM_PB_ONBOARD_PRESS \in a)
       ~> (ButtonAccepted("BUTTON_PRESSED") \/ pc = "sync_wait")
  /\ (pc = "button" /\ a = {PLATFORM_PB_ONBOARD_RELEASE})
       ~> (ButtonAccepted("BUTTON_RELEASED") \/ pc = "sync_wait")

\* C17: platform_usart_cdc_rx_async is never called while the transmit
\* facility is busy.
C17_NoRearmWhileTxBusy ==
  \A i \in 1..Len(rxArms) : ~rxArms[i].txbusy

\* C18: while generation-complete is set, no step writes the descriptor set
\* or the scratch buffer.
C18_GeneratedContentKept ==
  [][(PROG_FLAG_GEN_COMPLETE \in flags) => (tx_desc' = tx_desc /\ tx_buf' = tx_buf)]_vars

\* C18 witness: the update step generated the response to a key, set
\* generation-complete and is about to attempt the transfer.
C18_Witness ==
  /\ pc = "upd_tx"
  /\ PROG_FLAG_GEN_COMPLETE \in flags
  /\ call # "none"
  /\ tx_desc[2] = Desc(blinkSettingStrings(currentSetting))

\* A banner or update request is pending.
Pending == flags \cap {PROG_FLAG_BANNER_PENDING, PROG_FLAG_UPDATE_PENDING} # {}

\* C19: a pending request is eventually cleared (or the invocation stops at
\* the wait on TC0), whatever button edges arrive meanwhile.
C19_PendingEventuallyServed ==
  Pending ~> (~Pending \/ pc = "sync_wait")

\* C20: every invocation of prog_loop_one returns, given that the loop keeps
\* running and a transfer in flight completes after finitely many ticks.
C20_EveryInvocationReturns ==
  []<>(pc = "tick")

\* C21: the transfer an updateBlinkSetting call issues has two segments,
\* CHANGE_MODE and then the status line of currentSetting as the call left it,
\* also when the call was a no-op at OFF or ON.
C21_StatusLineAfterTransition ==
  \A i \in 1..Len(txAttempts) :
    txAttempts[i].site = "blink" =>
      /\ txAttempts[i].n = 2
      /\ tx_desc[1] = Desc("CHANGE_MODE")
      /\ tx_desc[2] = Desc(blinkSettingStrings(currentSetting))

\* C21 witness: a decrease call has issued its transfer with the setting at
\* OFF afterwards, as a decrease at OFF leaves it.
C21_Witness ==
  /\ pc = "upd_wait"
  /\ call = "dec"
  /\ currentSetting = OFF
  /\ txAttempts = <<[site |-> "blink", busy |-> FALSE, n |-> 2]>>
  /\ tx_desc[2] = Desc("Blink Setting: [   OFF  ]")

\* C22: the banner step never finds generation-complete set with its request
\* pending, so it always generates: every transfer accepted from it is the one
\* segment of descriptor 0, which holds the refresh banner.
C22_BannerStepSendsBanner ==
  /\ (pc = "banner" /\ PROG_FLAG_BANNER_PENDING \in flags) =>
       PROG_FLAG_GEN_COMPLETE \notin flags
  /\ \A i \in 1..Len(txAttempts) :
       (txAttempts[i].site = "banner" /\ ~txAttempts[i].busy) =>
         /\ txAttempts[i].n = 1
         /\ tx_desc[1] = Desc("banner_msg")

\* C22 witness: the banner step's transfer was accepted after an earlier
\* update request had left its status line in descriptor 1.
C22_Witness ==
  /\ pc = "update"
  /\ txAttempts = <<[site |-> "banner", busy |-> FALSE, n |-> 1]>>
  /\ tx_desc[1] = Desc("banner_msg")
  /\ tx_desc[2] = Desc(blinkSettingStrings(currentSetting))

\* C23: the mailbox never holds the PRESS bit and the RELEASE bit together.
C23_MailboxNeverBoth ==
  ~(PLATFORM_PB_ONBOARD_MASK \subseteq pb_press_mask)

\* C23 witness: a press and then a release ran the handler since the last
\* poll, and the mailbox holds the release only.
C23_Witness ==
  /\ edges = PLATFORM_PB_ONBOARD_MASK
  /\ lastEdge = {PLATFORM_PB_ONBOARD_RELEASE}
  /\ pb_press_mask = {PLATFORM_PB_ONBOARD_RELEASE}
  /\ pc # "pb_clear"

====
